---- MODULE Spec2Model ----
(***************************************************************************)
(* Model of datasets/image_datasets.py: the ActionSpotDataset clip sampler *)
(* (constructor validation, flat event index, uniform and event-biased     *)
(* start-frame sampling, dilated label construction, retry on unloadable   *)
(* frames).                                                                *)
(*                                                                         *)
(* Conventions: Python lists are sequences (Python index i is TLA index    *)
(* i+1); the label array is a sequence of length clip_len; strings that    *)
(* are stripped are sequences of Unicode code points ("a" is <<97>>);       *)
(* event_sample_rate and random.random() are numerators over RateDen.      *)
(*                                                                         *)
(* Three specifications share the definitions: Spec (construction and      *)
(* __getitem__ with its retry loop), SpecSample (construction and          *)
(* get_sample) and SpecLabels (label construction for any start frame).    *)
(***************************************************************************)
EXTENDS Integers, Sequences, FiniteSets, TLC

\* ---------------------------------------------------------------- bounds
MaxClipLen == 2
MaxStride == 2
MaxDatasetLen == 1
MaxPad == 1
MaxDilate == 1
MaxFail == 2
RateDen == 3
MaxLabelEvents == 2
MaxNegFrame == 1
MaxNumFrames == 3

\* ---------------------------------------------------------------- helpers
Max(a, b) == IF a >= b THEN a ELSE b
Min(a, b) == IF a <= b THEN a ELSE b

SeqsUpTo(S, n) == UNION {[1..k -> S] : k \in 0..n}

RECURSIVE SumSeq(_)
SumSeq(s) == IF s = <<>> THEN 0 ELSE Head(s) + SumSeq(Tail(s))

\* ---------------------------------------------------------------- class list
\* the code points str.strip() removes: those str.isspace() is true of
Whitespace ==
    (9..13) \cup (28..32) \cup {133, 160, 5760} \cup (8192..8202)
    \cup {8232, 8233, 8239, 8287, 12288}

RECURSIVE LStrip(_)
LStrip(s) == IF s # <<>> /\ Head(s) \in Whitespace THEN LStrip(Tail(s)) ELSE s

RECURSIVE RStrip(_)
RStrip(s) ==
    IF s # <<>> /\ s[Len(s)] \in Whitespace
    THEN RStrip(SubSeq(s, 1, Len(s) - 1)) ELSE s

\* str.strip()
Strip(s) == RStrip(LStrip(s))

\* the index enumerate() pairs with a line (first line: 0)
\* variant: classes numbered from 1
ClassIndexMut(i) == i
ClassIndex(i) == i - 1

\* {c.strip(): i for i, c in enumerate(classes)}: a name that occurs on
\* several lines keeps the index of its last line
get_classes(lines) ==
    [c \in {Strip(lines[i]) : i \in 1..Len(lines)} |->
        ClassIndex(CHOOSE i \in 1..Len(lines) :
            /\ Strip(lines[i]) = c
            /\ \A j \in 1..Len(lines) : Strip(lines[j]) = c => j <= i)]

\* class files as readlines() returns them: the classes "a" and "b",
\* written "a\n" "b\n", " a\n" "b", "a\f\n" "\xa0b\n" and
\* "\u2003a\x0b\x1f\n" "b\t"
ClassFiles ==
    { << <<97, 10>>, <<98, 10>> >>,
      << <<32, 97, 10>>, <<98>> >>,
      << <<97, 12, 10>>, <<160, 98, 10>> >>,
      << <<8195, 97, 11, 31, 10>>, <<98, 9>> >> }

\* event labels of the annotations: "a", "b" and "z"; "z" is in no class
\* file
EventLabels == { <<97>>, <<98>>, <<122>> }


\* ---------------------------------------------------------------- inputs
\* one annotated event {frame, label}
Events == [frame : (0 - MaxNegFrame)..MaxNumFrames, label : EventLabels]

\* one Annotation record of the label file
Annotations(n) ==
    [num_frames : {MaxNumFrames}, events : SeqsUpTo(Events, n)]

\* label files: one video, or two videos of which one has no event, each
\* with at most one event
LabelFiles ==
    {<<v>> : v \in Annotations(1)}
    \cup {<<v, w>> : <<v, w>> \in Annotations(1) \X Annotations(0)}
    \cup {<<w, v>> : <<v, w>> \in Annotations(1) \X Annotations(0)}

\* event_sample_rate values: -1.0, 0.0 and 1/RateDen
Rates == {0 - RateDen, 0, 1}

\* random.random(): a value of [0, 1)
RandomDraws == 0..(RateDen - 1)

\* constructor arguments, the invalid ones included
CtorArgs ==
    [clip_len : 0..MaxClipLen,
     frame_sample_stride : 0..MaxStride,
     dataset_len : 0..MaxDatasetLen,
     n_pad_frames : (0 - 1)..MaxPad,
     dilate_len : 0..MaxDilate,
     event_sample_rate : Rates]

\* ---------------------------------------------------------------- state
VARIABLES
    pc,                 \* position of the caller
    args,               \* arguments passed to __init__
    label_file,         \* content of the label json
    fail_first,         \* frame reader stub: number of leading failing calls
    classes_dict,       \* self.classes_dict
    clip_labels,        \* self.clip_labels
    clip_len,           \* self.clip_len
    frame_sample_stride,\* self.frame_sample_stride
    dataset_len,        \* self.dataset_len
    n_pad_frames,       \* self.n_pad_frames
    dilate_len,         \* self.dilate_len
    event_sample_rate,  \* self.event_sample_rate
    has_flat_labels,    \* whether the attribute self.flat_labels exists
    flat_labels,        \* self.flat_labels
    sample,             \* the last get_sample() draw and its result
    example,            \* the last value get_example() returned
    reader_calls,       \* calls of frame_reader.load_frames so far
    attempts            \* calls of get_example so far

vars == <<pc, args, label_file, fail_first, classes_dict, clip_labels,
          clip_len, frame_sample_stride, dataset_len, n_pad_frames,
          dilate_len, event_sample_rate, has_flat_labels, flat_labels,
          sample, example, reader_calls, attempts>>

inputs == <<args, label_file, fail_first, classes_dict>>

self_fields == <<clip_labels, clip_len, frame_sample_stride, dataset_len,
                 n_pad_frames, dilate_len, event_sample_rate,
                 has_flat_labels, flat_labels>>

NoSample ==
    [strategy |-> "none", draw |-> 0, video |-> 0, frame_idx |-> 0,
     lower_bound |-> 0, upper_bound |-> 0, start_frame |-> 0,
     raised |-> "none"]

NoExample == [frame |-> "None", label |-> <<>>, contains_event |-> 0]

\* the state before __init__ has run: no field is set
Unconstructed ==
    /\ pc = "new"
    /\ classes_dict \in {get_classes(f) : f \in ClassFiles}
    /\ clip_labels = <<>>
    /\ clip_len = 0
    /\ frame_sample_stride = 0
    /\ dataset_len = 0
    /\ n_pad_frames = 0
    /\ dilate_len = 0
    /\ event_sample_rate = 0
    /\ has_flat_labels = FALSE
    /\ flat_labels = <<>>
    /\ sample = NoSample
    /\ example = NoExample
    /\ reader_calls = 0
    /\ attempts = 0

\* The whole request path (construction, __getitem__ with its retry loop):
\* every argument combination without padding, label files of one video.
Init ==
    /\ args \in {a \in CtorArgs : a.n_pad_frames <= 0}
    /\ label_file \in {f \in LabelFiles : Len(f) = 1}
    /\ fail_first \in 0..MaxFail
    /\ Unconstructed


\* ---------------------------------------------------------------- __init__
\* variant: dataset_len is not validated
FailedAssertionMut(a) ==
    IF ~(a.clip_len > 0) THEN "clip_len"
    ELSE IF ~(a.frame_sample_stride > 0) THEN "frame_sample_stride"
    ELSE IF ~(a.n_pad_frames >= 0) THEN "n_pad_frames"
    ELSE "none"

\* the first failing assertion of __init__, "none" when all four hold
FailedAssertion(a) ==
    IF ~(a.clip_len > 0) THEN "clip_len"
    ELSE IF ~(a.frame_sample_stride > 0) THEN "frame_sample_stride"
    ELSE IF ~(a.dataset_len > 0) THEN "dataset_len"
    ELSE IF ~(a.n_pad_frames >= 0) THEN "n_pad_frames"
    ELSE "none"

\* the test of line 95 that admits an event to the flat index
EventKept(event, x) == event.frame < x["num_frames"]

RECURSIVE FlatOfEvents(_, _, _)
FlatOfEvents(i, x, events) ==
    IF events = <<>> THEN <<>>
    ELSE (IF EventKept(Head(events), x)
          THEN << <<i, Head(events).frame>> >> ELSE <<>>)
         \o FlatOfEvents(i, x, Tail(events))

\* the loops of lines 92-96 from video i (Python index i - 1) on
RECURSIVE FlatFrom(_, _)
FlatFrom(anns, i) ==
    IF i > Len(anns) THEN <<>>
    ELSE FlatOfEvents(i - 1, anns[i], anns[i].events) \o FlatFrom(anns, i + 1)

BuildFlatLabels(anns) == FlatFrom(anns, 1)

\* ActionSpotDataset(...): the fields are stored in source order and the
\* first failing assertion leaves the later ones unset
Construct ==
    /\ pc = "new"
    /\ LET failed == FailedAssertion(args)
           reached(names) == failed \notin names
       IN
        /\ clip_labels' = label_file
        /\ dilate_len' = args.dilate_len
        /\ event_sample_rate' = args.event_sample_rate
        /\ clip_len' = args.clip_len
        /\ frame_sample_stride' =
             IF reached({"clip_len"})
             THEN args.frame_sample_stride ELSE frame_sample_stride
        /\ dataset_len' =
             IF reached({"clip_len", "frame_sample_stride"})
             THEN args.dataset_len ELSE dataset_len
        /\ n_pad_frames' =
             IF reached({"clip_len", "frame_sample_stride", "dataset_len"})
             THEN args.n_pad_frames ELSE n_pad_frames
        /\ has_flat_labels' = (failed = "none" /\ args.event_sample_rate > 0)
        /\ flat_labels' =
             IF failed = "none" /\ args.event_sample_rate > 0
             THEN BuildFlatLabels(label_file) ELSE flat_labels
        /\ pc' = IF failed = "none" THEN "ready" ELSE "AssertionError_init"
    /\ UNCHANGED <<inputs, sample, example, reader_calls, attempts>>

\* __len__
DatasetLen == dataset_len

\* ---------------------------------------------------------------- sampling
\* uniform_sample_weight as numerators over sum(num_frames)
uniform_sample_weight == [i \in 1..Len(clip_labels) |-> clip_labels[i]["num_frames"]]

\* random.choices(clip_labels, weights): the videos of positive weight
WeightedChoices == {i \in 1..Len(clip_labels) : uniform_sample_weight[i] > 0}

\* random.randint(a, b)
RandInt(a, b) == a..b

\* sample_clip(): every (video, start_frame) it can return
sample_clip ==
    {[strategy |-> "clip", draw |-> 0, video |-> v, frame_idx |-> 0,
      lower_bound |-> 0, upper_bound |-> 0,
      start_frame |-> (0 - n_pad_frames * frame_sample_stride) + r,
      raised |-> "none"] :
        <<v, r>> \in UNION {
            {v} \X RandInt(0, Max(0, clip_labels[v]["num_frames"] - 1
                    + (2 * n_pad_frames - clip_len) * frame_sample_stride))
            : v \in WeightedChoices}}

lower_bound(frame_idx) ==
    Max(0 - n_pad_frames * frame_sample_stride,
        frame_idx - clip_len * frame_sample_stride + 1)

upper_bound(video_len, frame_idx) ==
    Min(video_len - 1 + (n_pad_frames - clip_len) * frame_sample_stride,
        frame_idx)

\* variant: without the assertion of line 148
AssertsHoldMut(start_frame, frame_idx) ==
    start_frame + clip_len > frame_idx

\* the two assert statements of lines 148-149
AssertsHold(start_frame, frame_idx) ==
    /\ start_frame <= frame_idx
    /\ start_frame + clip_len > frame_idx

\* sample_event(): every result it can produce, the raised exception included
sample_event ==
    IF ~has_flat_labels
    THEN {[NoSample EXCEPT !.strategy = "event", !.raised = "AttributeError"]}
    ELSE IF flat_labels = <<>>
    THEN {[NoSample EXCEPT !.strategy = "event", !.raised = "IndexError"]}
    ELSE
      UNION {
        LET video_idx == flat_labels[k][1]
            frame_idx == flat_labels[k][2]
            video_len == clip_labels[video_idx + 1]["num_frames"]
            lo == lower_bound(frame_idx)
            up == upper_bound(video_len, frame_idx)
        IN {[strategy |-> "event", draw |-> 0, video |-> video_idx + 1,
             frame_idx |-> frame_idx, lower_bound |-> lo, upper_bound |-> up,
             start_frame |-> st,
             raised |-> IF AssertsHold(st, frame_idx)
                        THEN "none" ELSE "AssertionError"] :
               st \in (IF up > lo THEN RandInt(lo, up) ELSE {lo})}
        : k \in 1..Len(flat_labels)}

\* variant: >= in place of >
UseEventSamplingMut(u) == event_sample_rate > 0 /\ u >= event_sample_rate

\* the test of line 155 for the draw u of random.random()
UseEventSampling(u) == event_sample_rate > 0 /\ u > event_sample_rate

\* get_sample(): every result it can produce
get_sample ==
    UNION {
        {[s EXCEPT !.draw = u] :
            s \in (IF UseEventSampling(u) THEN sample_event ELSE sample_clip)}
        : u \in RandomDraws}


\* ---------------------------------------------------------------- labels
\* np.zeros(self.clip_len, np.int64)
Zeros(n) == [i \in 1..n |-> 0]

\* (event_frame - start_frame) // self.frame_sample_stride
label_index(event_frame, start_frame) ==
    (event_frame - start_frame) \div frame_sample_stride

\* variant: the range test ignores dilate_len
InDilatedClipMut(li) == li >= 0 /\ li < clip_len

\* the test of line 172
InDilatedClip(li) == li >= 0 - dilate_len /\ li < clip_len + dilate_len

\* variant: the written range ends one position early
WriteLabelMut(labels, li, label) ==
    [j \in 1..Len(labels) |->
        IF /\ j - 1 >= Max(0, li - dilate_len)
           /\ j - 1 < Min(clip_len, li + dilate_len)
        THEN label ELSE labels[j]]

\* the loop of lines 174-175: labels[i] = label for i in range(...)
WriteLabel(labels, li, label) ==
    [j \in 1..Len(labels) |->
        IF /\ j - 1 >= Max(0, li - dilate_len)
           /\ j - 1 < Min(clip_len, li + dilate_len + 1)
        THEN label ELSE labels[j]]

\* variant: the events are visited in reverse order
EventOrderMut(events) ==
    [i \in 1..Len(events) |-> events[Len(events) + 1 - i]]

\* the order in which the loop of line 166 visits the events
EventOrder(events) == events

\* the loop of lines 166-175 over the events still to visit; a label that is
\* not a key of classes_dict raises KeyError
RECURSIVE ApplyEvents(_, _, _)
ApplyEvents(events, start_frame, labels) ==
    IF events = <<>> THEN [raised |-> "none", label |-> labels]
    ELSE LET event == Head(events)
             li == label_index(event.frame, start_frame)
         IN IF ~InDilatedClip(li)
            THEN ApplyEvents(Tail(events), start_frame, labels)
            ELSE IF event.label \notin DOMAIN classes_dict
            THEN [raised |-> "KeyError", label |-> labels]
            ELSE ApplyEvents(Tail(events), start_frame,
                             WriteLabel(labels, li, classes_dict[event.label]))

\* lines 164-175
MakeLabels(clip_label, start_frame) ==
    ApplyEvents(EventOrder(clip_label["events"]), start_frame, Zeros(clip_len))

\* int(labels.sum() > 0)
ContainsEvent(labels) == IF SumSeq(labels) > 0 THEN 1 ELSE 0

\* frame_reader.load_frames of a reader that fails on its first fail_first
\* calls: the result of the call made after `calls` earlier ones
load_frames(calls) == IF calls < fail_first THEN "None" ELSE "frames"

\* ---------------------------------------------------------------- get_example
\* one call of get_example(): it returns an example (pc at the loop test of
\* __getitem__) or raises
GetExample ==
    \E s \in get_sample :
        /\ sample' = s
        /\ attempts' = attempts + 1
        /\ IF s.raised # "none"
           THEN /\ pc' = s.raised
                /\ UNCHANGED <<example, reader_calls>>
           ELSE LET made == MakeLabels(clip_labels[s.video], s.start_frame)
                IN IF made.raised # "none"
                   THEN /\ pc' = made.raised
                        /\ UNCHANGED <<example, reader_calls>>
                   ELSE /\ pc' = "loop"
                        /\ reader_calls' = reader_calls + 1
                        /\ example' =
                             [frame |-> load_frames(reader_calls),
                              label |-> made.label,
                              contains_event |-> ContainsEvent(made.label)]

\* variant: the example is returned without the retry loop
FrameIsNoneMut(ex) == FALSE

\* the test of the while statement of line 188
FrameIsNone(ex) == ex.frame = "None"

\* __getitem__, line 187: the first call of get_example
GetItem ==
    /\ pc = "ready"
    /\ GetExample
    /\ UNCHANGED <<inputs, self_fields>>

\* __getitem__, lines 188-189: the example has no frames, sample again
Retry ==
    /\ pc = "loop"
    /\ FrameIsNone(example)
    /\ GetExample
    /\ UNCHANGED <<inputs, self_fields>>

\* __getitem__, line 190
Return ==
    /\ pc = "loop"
    /\ ~FrameIsNone(example)
    /\ pc' = "returned"
    /\ UNCHANGED <<inputs, self_fields, sample, example, reader_calls, attempts>>

Next == Construct \/ GetItem \/ Retry \/ Return

Spec == Init /\ [][Next]_vars


\* ---------------------------------------------------------------- sampling only
\* Construction and get_sample() on their own: every argument combination
\* with the default dilate_len, every label file.
InitSample ==
    /\ args \in {a \in CtorArgs : a.dilate_len = 0}
    /\ label_file \in LabelFiles
    /\ fail_first = 0
    /\ Unconstructed

\* get_example, line 162: the call of get_sample()
GetSample ==
    /\ pc = "ready"
    /\ \E s \in get_sample :
        /\ sample' = s
        /\ pc' = IF s.raised # "none" THEN s.raised ELSE "sampled"
    /\ attempts' = attempts + 1
    /\ UNCHANGED <<inputs, self_fields, example, reader_calls>>

NextSample == Construct \/ GetSample

SpecSample == InitSample /\ [][NextSample]_vars

\* ---------------------------------------------------------------- labels only
\* Label construction (lines 164-175) on its own: a constructed dataset of
\* one video with up to MaxLabelEvents events, get_sample() having returned
\* an arbitrary start frame.
StartFrames ==
    (0 - MaxPad * MaxStride)..(MaxNumFrames - 1 + MaxPad * MaxStride)

\* the videos of this specification: events inside the video only (a label
\* depends on event frame and start frame through their difference)
LabelVideos ==
    [num_frames : {MaxNumFrames},
     events : SeqsUpTo([frame : 0..(MaxNumFrames - 1), label : EventLabels],
                       MaxLabelEvents)]

InitLabels ==
    /\ pc = "sampled"
    /\ args \in {a \in CtorArgs :
                    /\ FailedAssertion(a) = "none"
                    /\ a.dataset_len = 1
                    /\ a.n_pad_frames = 0
                    /\ a.event_sample_rate = 0 - RateDen}
    /\ label_file \in {<<v>> : v \in LabelVideos}
    /\ fail_first = 0
    /\ classes_dict \in {get_classes(f) : f \in ClassFiles}
    /\ clip_labels = label_file
    /\ clip_len = args.clip_len
    /\ frame_sample_stride = args.frame_sample_stride
    /\ dataset_len = args.dataset_len
    /\ n_pad_frames = args.n_pad_frames
    /\ dilate_len = args.dilate_len
    /\ event_sample_rate = args.event_sample_rate
    /\ has_flat_labels = FALSE
    /\ flat_labels = <<>>
    /\ sample \in {[NoSample EXCEPT !.strategy = "clip", !.video = 1,
                                    !.start_frame = st] : st \in StartFrames}
    /\ example = NoExample
    /\ reader_calls = 0
    /\ attempts = 1

\* get_example, lines 164-175: the label array of the sampled clip
BuildLabels ==
    /\ pc = "sampled"
    /\ LET made == MakeLabels(clip_labels[sample.video], sample.start_frame)
       IN IF made.raised # "none"
          THEN /\ pc' = made.raised
               /\ UNCHANGED example
          ELSE /\ pc' = "labelled"
               /\ example' = [frame |-> "None", label |-> made.label,
                              contains_event |-> ContainsEvent(made.label)]
    /\ UNCHANGED <<inputs, self_fields, sample, reader_calls, attempts>>

NextLabels == BuildLabels

SpecLabels == InitLabels /\ [][NextLabels]_vars


\* ---------------------------------------------------------------- properties
\* the events of the video the last sample chose
SampledEvents == clip_labels[sample.video]["events"]

\* get_sample() returned a (video, start frame) pair
Sampled == sample.strategy \in {"clip", "event"} /\ sample.raised = "none"

\* C1: every start frame sample_event returns puts the event frame inside
\* the sampled window: start <= event_frame < start + clip_len * stride,
\* also when upper <= lower and start is lower.
C1_EventInsideWindow ==
    (sample.strategy = "event" /\ sample.raised = "none") =>
        /\ sample.start_frame <= sample.frame_idx
        /\ sample.frame_idx
             < sample.start_frame + clip_len * frame_sample_stride

\* C1 witness: an event-biased sample of the degenerate case (upper <= lower,
\* start = lower) with stride 2 has been returned.
C1_Witness ==
    /\ sample.strategy = "event"
    /\ sample.raised = "none"
    /\ sample.upper_bound <= sample.lower_bound
    /\ sample.start_frame = sample.lower_bound
    /\ frame_sample_stride = 2
    /\ pc = "sampled"

\* C2: __getitem__ never returns an example without frames; with a reader
\* that fails on its first fail_first calls, the example returned is the
\* one of attempt fail_first + 1 and the reader was called fail_first + 1
\* times, one call per attempt.
C2_RetryUntilLoaded ==
    /\ pc \in {"loop", "returned"} =>
        /\ reader_calls = attempts
        /\ (example.frame = "None") <=> (reader_calls <= fail_first)
        /\ Sampled
        /\ example.label
             = MakeLabels(clip_labels[sample.video], sample.start_frame).label
    /\ pc = "returned" =>
        /\ example.frame # "None"
        /\ reader_calls = fail_first + 1
        /\ attempts = fail_first + 1

\* C2 witness: the reader failed twice and the third attempt was returned.
C2_Witness ==
    /\ pc = "returned"
    /\ fail_first = 2
    /\ reader_calls = 3
    /\ example.frame = "frames"

\* the label index of an event for the start frame of the last sample
IndexOf(event) == (event.frame - sample.start_frame) \div frame_sample_stride

\* C3: for a video with exactly one event, the label array holds the
\* event's class index at the positions (f - start) // stride - d ..
\* (f - start) // stride + d that lie in [0, clip_len), and 0 elsewhere.
C3_SingleEventDilation ==
    (pc = "labelled" /\ Len(SampledEvents) = 1) =>
        LET event == SampledEvents[1]
            li == IndexOf(event)
        IN /\ Len(example.label) = clip_len
           /\ \A j \in 1..clip_len :
                example.label[j] =
                    IF j - 1 >= li - dilate_len /\ j - 1 <= li + dilate_len
                    THEN classes_dict[event.label] ELSE 0

\* C3 witness: one event of class index 1, dilation 1, stride 2, a window
\* cut by the start of the clip, and a background position left.
C3_Witness ==
    /\ pc = "labelled"
    /\ Len(SampledEvents) = 1
    /\ dilate_len = 1
    /\ frame_sample_stride = 2
    /\ IndexOf(SampledEvents[1]) = 0 - 1
    /\ example.label = <<1, 0>>

\* C4: get_sample uses event-centered sampling exactly when
\* event_sample_rate > 0 and the draw is strictly greater than it; with
\* event_sample_rate <= 0 every sample is a uniform clip sample and no flat
\* event index exists to consult.
C4_StrategySelection ==
    sample.strategy # "none" =>
        /\ (sample.strategy = "event")
             <=> (event_sample_rate > 0 /\ sample.draw > event_sample_rate)
        /\ (sample.strategy = "clip")
             <=> ~(event_sample_rate > 0 /\ sample.draw > event_sample_rate)
        /\ event_sample_rate <= 0 =>
             (sample.strategy = "clip" /\ ~has_flat_labels)

\* C4 witness: event sampling is enabled and the draw equals the rate, so
\* the clip was drawn uniformly.
C4_Witness ==
    /\ sample.strategy = "clip"
    /\ event_sample_rate > 0
    /\ sample.draw = event_sample_rate
    /\ pc = "sampled"

\* the arguments __init__ must reject
InvalidArgs ==
    \/ args.clip_len <= 0
    \/ args.frame_sample_stride <= 0
    \/ args.dataset_len <= 0
    \/ args.n_pad_frames < 0

\* C5: construction fails exactly for clip_len <= 0, stride <= 0,
\* dataset_len <= 0 or n_pad_frames < 0 and then no example is ever
\* produced; otherwise it succeeds with the values as given (no clamping)
\* and __len__ reports dataset_len.
C5_ConfigValidation ==
    pc # "new" =>
        /\ InvalidArgs <=> (pc = "AssertionError_init")
        /\ InvalidArgs =>
             (attempts = 0 /\ example = NoExample /\ sample = NoSample)
        /\ ~InvalidArgs =>
             /\ DatasetLen = args.dataset_len
             /\ clip_len = args.clip_len
             /\ frame_sample_stride = args.frame_sample_stride
             /\ n_pad_frames = args.n_pad_frames

\* C5 witness: construction was refused for n_pad_frames < 0 alone.
C5_Witness ==
    /\ pc = "AssertionError_init"
    /\ args.clip_len > 0
    /\ args.frame_sample_stride > 0
    /\ args.dataset_len > 0
    /\ args.n_pad_frames < 0

\* an event of the sampled video whose label is no key of the class map
MissingLabel(event) == event.label \notin DOMAIN classes_dict

\* the label index of the event lies in [-dilate_len, clip_len + dilate_len)
NearClip(event) ==
    /\ IndexOf(event) >= 0 - dilate_len
    /\ IndexOf(event) < clip_len + dilate_len

\* C6 (as claimed): if the chosen video has an event (here: one inside the
\* video, 0 <= frame < num_frames) whose label is absent from the class map,
\* the attempt fails with a lookup error.
C6_AnyMissingLabelFails ==
    (Sampled /\ \E k \in 1..Len(SampledEvents) :
                    /\ MissingLabel(SampledEvents[k])
                    /\ SampledEvents[k].frame >= 0
                    /\ SampledEvents[k].frame
                         < clip_labels[sample.video]["num_frames"])
        => pc = "KeyError"

\* C6 (amended): the attempt fails with a lookup error exactly when the
\* chosen video has an event with an absent label whose label index lies in
\* [-dilate_len, clip_len + dilate_len); the failure ends the request: no
\* retry follows and nothing is returned.
C6_MissingLabelNearClipFails ==
    /\ [](Sampled =>
            ((\E k \in 1..Len(SampledEvents) :
                 MissingLabel(SampledEvents[k]) /\ NearClip(SampledEvents[k]))
             <=> pc = "KeyError"))
    /\ [][pc = "KeyError" => pc' = "KeyError"]_vars

\* C6 witness: a retry (the reader had failed once) hit the absent label.
C6_Witness ==
    /\ pc = "KeyError"
    /\ attempts = 2
    /\ reader_calls = 1
    /\ \E k \in 1..Len(SampledEvents) : MissingLabel(SampledEvents[k])

NumClasses == Cardinality(DOMAIN classes_dict)

\* C7: every label array get_example produces has length clip_len and
\* entries in [0, num_classes).
C7_LabelShapeAndRange ==
    pc \in {"labelled", "loop", "returned"} =>
        /\ Len(example.label) = clip_len
        /\ \A j \in 1..Len(example.label) :
             example.label[j] >= 0 /\ example.label[j] < NumClasses

\* C7 witness: with dilation 1 and a negative start frame, a label array
\* of length 2 holds the last class index in both positions.
C7_Witness ==
    /\ pc = "labelled"
    /\ sample.start_frame < 0
    /\ dilate_len = 1
    /\ clip_len = 2
    /\ example.label = <<NumClasses - 1, NumClasses - 1>>

\* C8 (as claimed): for every entry of the flat event index with a frame
\* >= 0, both assertions of sample_event hold.
C8_AssertionsNeverFail ==
    (sample.strategy = "event" /\ sample.frame_idx >= 0)
        => sample.raised # "AssertionError"

RECURSIVE InRangePairs(_, _)
InRangePairs(i, events) ==
    IF events = <<>> THEN <<>>
    ELSE (IF /\ Head(events).frame >= 0
             /\ Head(events).frame < label_file[i + 1]["num_frames"]
          THEN << <<i, Head(events).frame>> >> ELSE <<>>)
         \o InRangePairs(i, Tail(events))

RECURSIVE InRangeIndex(_)
InRangeIndex(i) ==
    IF i >= Len(label_file) THEN <<>>
    ELSE InRangePairs(i, label_file[i + 1]["events"]) \o InRangeIndex(i + 1)

\* C9 (as claimed): with event_sample_rate > 0 the flat event index holds
\* one (video_index, event_frame) pair per event with a frame in
\* [0, num_frames), in annotation order, and nothing else.
C9_FlatIndexInRange ==
    (pc = "ready" /\ event_sample_rate > 0) =>
        (has_flat_labels /\ flat_labels = InRangeIndex(0))

\* the events of the sampled video whose dilation window covers position j
Covering(j) ==
    {k \in 1..Len(SampledEvents) :
        /\ j - 1 >= IndexOf(SampledEvents[k]) - dilate_len
        /\ j - 1 <= IndexOf(SampledEvents[k]) + dilate_len}

SetMax(S) == CHOOSE x \in S : \A y \in S : y <= x

\* C10: a position covered by the dilation windows of several events holds
\* the class index of the covering event that comes last in annotation
\* order.
C10_LastWriteWins ==
    pc = "labelled" =>
        \A j \in 1..clip_len :
            Covering(j) # {} =>
                example.label[j]
                    = classes_dict[SampledEvents[SetMax(Covering(j))].label]

\* C10 witness: two events of different classes cover one position, and the
\* first of them is the one closer to it.
C10_Witness ==
    /\ pc = "labelled"
    /\ Len(SampledEvents) = 2
    /\ \E j \in 1..clip_len :
        /\ Covering(j) = {1, 2}
        /\ IndexOf(SampledEvents[1]) = j - 1
        /\ IndexOf(SampledEvents[2]) # j - 1
        /\ classes_dict[SampledEvents[1].label] = 1
        /\ classes_dict[SampledEvents[2].label] = 0
        /\ example.label[j] = 0

====
